---- MODULE Spec2Model ----
(***************************************************************************)
(* The RAG retrieval pipeline of CustomersAI-agent: the Qdrant knowledge   *)
(* base (upsert / delete / filtered search), query expansion, multi-query  *)
(* search with deduplication, reranking, context formatting and answer     *)
(* generation, as written in .agent/System/rag_pipeline.md and the backend *)
(* snippets of the hackathon roadmap; and the application around it: the   *)
(* message handler, the ingestion queues, the pages of the dashboard and   *)
(* the chat widget.                                                        *)
(*                                                                         *)
(* The specifications share the variables:                                 *)
(*   Spec / FairSpec   one inbound message through the end-to-end RAG flow *)
(*                     over a seeded knowledge base;                       *)
(*   IndexSpec         upserts, deletes and searches on a knowledge base   *)
(*                     holding chunks of several tenants;                  *)
(*   SeededIndexSpec   searches on the seeded knowledge base and on what   *)
(*                     source removals leave of it;                        *)
(*   RerankSpec        rerank_with_llm applied to the candidate lists the  *)
(*                     multi-query search produces;                        *)
(*   ScoreRerankSpec   rerank_by_score applied to any list of candidates;  *)
(*   ChunkSpec / ChunkFairSpec   chunk_text, one turn of its loop at a     *)
(*                     time;                                               *)
(*   HandlerSpec       handle_message, the keyword routing of an inbound   *)
(*                     message;                                            *)
(*   QueueSpec         the ingestion jobs of the RQ queues;                *)
(*   KnowledgeFormSpec the crawl form of the Knowledge page;               *)
(*   KnowledgeSpec     the ingestion requests of the Knowledge page and    *)
(*                     the polling of the active job;                      *)
(*   PlaygroundSpec    the Playground page;                                *)
(*   ActivitySpec      the Activity page;                                  *)
(*   WidgetSpec        the embedded chat widget;                           *)
(*   CallbackSpec / CallbackFairSpec   the OAuth callback page.            *)
(***************************************************************************)
EXTENDS Integers, Sequences, FiniteSets, TLC

VARIABLES
    index,          \* Qdrant collection "knowledge_base": point id -> payload
    hits,           \* result of the last search on the collection (IndexSpec)
    lastOp,         \* the last operation on the collection (IndexSpec)
    pc,             \* stage of the inbound message
    request,        \* MessageRequest: tenant_id, content
    llm_reply,      \* what the language model returned to the step that asked
    queries,        \* generate_query_variants: list of query variants
    qi,             \* multi_query_search: position of the next variant
    per_variant,    \* multi_query_search: the chunks each variant returned
    all_chunks,     \* multi_query_search: all_chunks
    unique_chunks,  \* multi_query_search: unique_chunks.values()
    chunks,         \* multi_query_search: returned list (sorted, truncated)
    top_chunks,     \* rerank: returned list
    context,        \* format_rag_context: returned text, as its blocks
    error,          \* the exception raised by a step, or NoError
    reply,          \* what the caller of the handler gets back
    rerank_k,       \* rerank: top_k, the number of chunks asked for
    text,           \* chunk_text: the text to split
    chunk_size,     \* chunk_text: chunk_size
    overlap,        \* chunk_text: overlap
    start,          \* chunk_text: start
    text_chunks,    \* chunk_text: chunks
    handlers,       \* handle_message: the handlers entered for the message
    jobs,           \* RQ: the jobs enqueued, oldest first: queue and status
    websiteUrl,     \* Knowledge: websiteUrl, the text of the URL field
    maxPages,       \* Knowledge: maxPages
    ingestions,     \* Knowledge: the ingestion requests sent, oldest first
    activeJobId,    \* Knowledge: activeJobId, 0 for null
    jobStatus,      \* Knowledge: query data of ["jobStatus", id], by job id
    polls,          \* Knowledge: the job ids with a status request in flight
    effect,         \* Knowledge: the job whose status the pending effect reads, or 0
    messages,       \* Playground: messages, each with the number of clears before its request
    input,          \* Playground: input, the text of the message field
    isLoading,      \* Playground: isLoading
    conversationId, \* Playground: conversationId, 0 for null
    inflight,       \* Playground: the message requests awaiting their response
    sent,           \* Playground: the message requests sent, oldest first
    clears,         \* Playground: the number of calls of handleClear
    selectedConversation, \* Activity: selectedConversation, 0 for null
    conversationDetail, \* Activity: the conversation of conversationDetail, 0 for null
    replyText,      \* Activity: replyText
    loadingDetail,  \* Activity: loadingDetail
    sendingReply,   \* Activity: sendingReply
    detailRequests, \* Activity: the detail requests in flight
    replyRequests,  \* Activity: the reply requests in flight
    loads,          \* Activity: the number of detail requests sent
    widgetInput,    \* widget: elements.input.value
    bubbles,        \* widget: the children appended to elements.messages
    fetches,        \* widget: the sendMessage calls awaiting fetch or response.json()
    widgetConversationId, \* widget: this.conversationId, 0 for the id generated
    location,       \* the route shown by the browser
    searchParams,   \* CallbackHandler: the query parameters of the URL
    callbackStatus, \* CallbackHandler: status
    callbackMessage, \* CallbackHandler: message
    timers,         \* CallbackHandler: the delays of the timeouts pending
    visits          \* the number of times the OAuth provider redirected to /callback

vars == << index, hits, lastOp, pc, request, llm_reply, queries, qi,
           per_variant, all_chunks, unique_chunks, chunks, top_chunks,
           context, error, reply, rerank_k, text, chunk_size, overlap, start,
           text_chunks, handlers,
           jobs,
           websiteUrl, maxPages, ingestions, activeJobId, jobStatus, polls,
           effect,
           messages, input, isLoading, conversationId, inflight, sent, clears,
           selectedConversation, conversationDetail, replyText,
           loadingDetail, sendingReply, detailRequests, replyRequests, loads,
           widgetInput, bubbles, fetches, widgetConversationId,
           location, searchParams, callbackStatus, callbackMessage, timers, visits >>

indexVars == << index, hits, lastOp >>
flowVars  == << pc, request, llm_reply, queries, qi, per_variant, all_chunks,
                unique_chunks, chunks, top_chunks, context, error, reply,
                rerank_k >>
chunkVars == << text, chunk_size, overlap, start, text_chunks >>
\* the application around the pipeline: message handler, job queues, pages
handlerVars == << handlers >>
queueVars   == << jobs >>
\* the Knowledge page
knowledgeVars == << websiteUrl, maxPages, ingestions, activeJobId, jobStatus, polls, effect >>
\* the Playground page
playgroundVars == << messages, input, isLoading, conversationId, inflight, sent, clears >>
\* the Activity page
activityVars == << selectedConversation, conversationDetail, replyText, loadingDetail, sendingReply, detailRequests, replyRequests, loads >>
\* the embedded chat widget
widgetVars == << widgetInput, bubbles, fetches, widgetConversationId >>
\* the OAuth callback page
callbackVars == << location, searchParams, callbackStatus, callbackMessage, timers, visits >>
pageVars == << knowledgeVars, playgroundVars, activityVars, widgetVars, callbackVars >>
appVars     == << handlerVars, queueVars, pageVars >>
\* what the server keeps, and what each page leaves alone
backendVars == << indexVars, flowVars, chunkVars, handlerVars >>
aroundKnowledge == << backendVars, playgroundVars, activityVars, widgetVars,
                   callbackVars >>
aroundPlayground == << backendVars, queueVars, knowledgeVars, activityVars, widgetVars,
                   callbackVars >>
aroundActivity == << backendVars, queueVars, knowledgeVars, playgroundVars, widgetVars,
                   callbackVars >>
aroundWidget == << backendVars, queueVars, knowledgeVars, playgroundVars,
                   activityVars, callbackVars >>
aroundCallback == << backendVars, queueVars, knowledgeVars, playgroundVars,
                     activityVars, widgetVars >>

----------------------------------------------------------------------------
(* Bounds of the model *)

\* point ids an ingestion may upsert under (IndexSpec)
MaxFuzzId == 2
\* number of alternative phrasings the language model may return
MaxVariants == 2
\* length of the index list the language model may return to the reranker
MaxReplyLen == 4
\* largest index the language model may name (indices run from -1)
MaxIdx == 1
\* length of the candidate lists handed to rerank_by_score (ScoreRerankSpec)
MaxCands == 4
\* number of ingestion jobs enqueued (QueueSpec)
MaxJobs == 4
\* length of the texts handed to chunk_text (ChunkSpec)
MaxTextLen == 4
\* largest chunk_size handed to chunk_text (ChunkSpec)
MaxChunkSize == 3
\* number of ingestion requests the Knowledge page sends (KnowledgeSpec)
MaxIngests == 2
\* number of messages the Playground sends (PlaygroundSpec)
MaxSends == 3
\* number of times the Playground is cleared (PlaygroundSpec)
MaxClears == 2
\* number of conversation-detail requests the Activity page sends
\* (ActivitySpec)
MaxLoads == 3
\* number of messages sent from the widget (WidgetSpec)
MaxWidgetSends == 3
\* number of redirections to the OAuth callback page (CallbackSpec)
MaxCallbacks == 2

----------------------------------------------------------------------------
(* Data *)

Tenants == {"t1", "t2"}

SourceTypes == {"document", "website", "faq"}

\* Texts: user queries, their paraphrases and chunk contents, by topic.
Texts == {"delivery", "returns", "refunds"}

NoError == [step |-> "none", exc |-> "none", attempts |-> 0]
NoReply == [kind |-> "none"]
NoOp    == [op |-> "none"]

\* Sequence helpers
Min(a, b) == IF a < b THEN a ELSE b

Take(s, n) == SubSeq(s, 1, Min(n, Len(s)))

Range(s) == { s[i] : i \in 1..Len(s) }

RECURSIVE Flatten(_)
Flatten(ss) == IF ss = << >> THEN << >> ELSE Head(ss) \o Flatten(Tail(ss))

\* Sequences over S of length at most n
SeqUpTo(S, n) == UNION { [1..k -> S] : k \in 0..n }

\* embed_text: the embedding provider maps a text to a vector; texts on the
\* same topic get the same vector.
embed_text(txt) ==
    CASE txt = "delivery" -> 0
      [] txt = "returns"  -> 1
      [] txt = "refunds"  -> 2
      [] txt \in {"Livraison ?", "LIVRAISON et retour"} -> 0
      [] txt \in {"retourner un colis", "reclamation"}   -> 1
      [] txt \in {"remboursement", "garantie"}           -> 2
      [] txt \in {"rendez-vous", "asdf"}                 -> 3

\* Cosine similarity of the collection, on the one-dimensional vectors above:
\* the closer the vectors, the higher the score.
Similarity(qv, cv) == IF qv >= cv THEN 2 - (qv - cv) ELSE 2 - (cv - qv)

\* sorted(xs, key=lambda x: x["score"], reverse=True): by descending score,
\* stable, so elements of equal score keep their order. An element goes to the
\* position given by the number of elements that come before it.
SortedByScoreDesc(s) ==
    LET Before(j, i) == \/ s[j].score > s[i].score
                        \/ (s[j].score = s[i].score /\ j < i)
        Rank(i) == Cardinality({ j \in 1..Len(s) : Before(j, i) }) + 1
    IN  [ k \in 1..Len(s) |-> s[CHOOSE i \in 1..Len(s) : Rank(i) = k] ]

----------------------------------------------------------------------------
(* The Qdrant collection *)

\* The payload of a point. source_id and metadata, which no search filter and
\* no step of the retrieval reads, are left out; the vector of a point is
\* embed_text of its content.
Points == [tenant_id : Tenants, source_type : SourceTypes, content : Texts]

\* Python's None
None == << >>

\* payload["metadata"] as the ingestions write it: the url of the page for a
\* chunk of a website, the filename for a chunk of a document, neither for
\* an FAQ entry. A key that is not written reads as None.
MetadataOf(id, p) ==
    [url      |-> IF p.source_type = "website" THEN << "url", id >> ELSE None,
     filename |-> IF p.source_type = "document" THEN << "filename", id >> ELSE None]

\* metadata.get(key, default)
Get(metadata, key, default) ==
    IF key \in DOMAIN metadata /\ metadata[key] # None
    THEN metadata[key] ELSE default

\* The ids of the collection in insertion order (ids are handed out in
\* increasing order).
IdsInOrder(S) ==
    [ k \in 1..Cardinality(S) |->
        CHOOSE x \in S : Cardinality({ y \in S : y < x }) = k - 1 ]

\* The points of the collection that match the filter, scored against the
\* query vector.
HitsOf(idx, ids, qvec, tenants, types) ==
    LET scored == [ k \in 1..Len(ids) |->
                      [id |-> ids[k],
                       score |-> Similarity(qvec, embed_text(idx[ids[k]].content)),
                       payload |-> idx[ids[k]],
                       metadata |-> MetadataOf(ids[k], idx[ids[k]])] ]
        Matches(h) == /\ h.payload.tenant_id \in tenants
                      /\ h.payload.source_type \in types
    IN  SelectSeq(scored, Matches)

\* qdrant.search that ignores its limit.
QdrantSearch_nolimit(idx, qvec, limit, tenants, types) ==
    SortedByScoreDesc(HitsOf(idx, IdsInOrder(DOMAIN idx), qvec, tenants, types))

\* qdrant.search(query_vector, limit, query_filter): the points matching the
\* filter, by descending score, ties in insertion order, at most limit.
QdrantSearch(idx, qvec, limit, tenants, types) ==
    Take(SortedByScoreDesc(HitsOf(idx, IdsInOrder(DOMAIN idx), qvec, tenants, types)),
         limit)

\* A search that consumes the collection: nothing is left after it.
CollectionAfterSearch_consumed(idx) == [ i \in {} |-> idx[i] ]

\* qdrant.search only reads: the collection after the call is the collection
\* before it.
CollectionAfterSearch(idx) == idx

\* search_qdrant without its tenant filter.
search_qdrant_nofilter(idx, query, tenant_id, top_k) ==
    LET results == QdrantSearch(idx, embed_text(query), top_k,
                                Tenants, {"document", "website"})
    IN  [ i \in 1..Len(results) |->
            [id |-> results[i].id, content |-> results[i].payload.content,
             score |-> results[i].score,
             source_type |-> results[i].payload.source_type,
             metadata |-> results[i].metadata] ]

\* search_qdrant(query, tenant_id, top_k)
search_qdrant(idx, query, tenant_id, top_k) ==
    LET results == QdrantSearch(idx, embed_text(query), top_k,
                                {tenant_id}, {"document", "website"})
    IN  [ i \in 1..Len(results) |->
            [id |-> results[i].id, content |-> results[i].payload.content,
             score |-> results[i].score,
             source_type |-> results[i].payload.source_type,
             metadata |-> results[i].metadata] ]

\* search_knowledge(query, tenant_id, top_k): the roadmap's search, which
\* filters on tenant_id alone and returns no id.
search_knowledge(idx, query, tenant_id, top_k) ==
    LET results == QdrantSearch(idx, embed_text(query), top_k,
                                {tenant_id}, SourceTypes)
    IN  [ i \in 1..Len(results) |->
            [content |-> results[i].payload.content,
             score |-> results[i].score,
             source_type |-> results[i].payload.source_type,
             metadata |-> results[i].metadata] ]

EmptyIndex == [ i \in {} |-> CHOOSE p \in Points : TRUE ]

\* qdrant.upsert(points=[{id, vector, payload}]): insert or replace by id.
UpsertPoint(idx, id, p) ==
    [ i \in (DOMAIN idx) \cup {id} |-> IF i = id THEN p ELSE idx[i] ]

\* qdrant.delete(points_selector={filter: must tenant_id, source_type}): the
\* points of one tenant that come from one kind of source.
DeletePoints(idx, tenant_id, source_type) ==
    LET keep == { i \in DOMAIN idx :
                    ~(idx[i].tenant_id = tenant_id /\ idx[i].source_type = source_type) }
    IN  [ i \in keep |-> idx[i] ]

\* The knowledge base the message flow runs on: for tenant t1 three chunks on
\* delivery, seven on returns and five on refunds, taken in turn from
\* documents and websites, and one FAQ entry; for tenant t2 one FAQ entry and
\* nothing from a document or a website.
SeedContent(i) ==
    IF i <= 3 THEN "delivery" ELSE IF i <= 10 THEN "returns" ELSE "refunds"

SeedIndex ==
    [ i \in 1..17 |->
        IF i = 17
        THEN [tenant_id |-> "t2", source_type |-> "faq", content |-> "returns"]
        ELSE [tenant_id |-> "t1",
              source_type |-> IF i = 16 THEN "faq"
                              ELSE IF i % 2 = 0 THEN "document" ELSE "website",
              content |-> SeedContent(i)] ]

----------------------------------------------------------------------------
(* IndexSpec: operations on the collection *)

\* No message is in the handler, no job in a queue, no page open.
AppIdle ==
    /\ handlers = << >>
    /\ jobs = << >>
    /\ websiteUrl = << >>
    /\ maxPages = 50
    /\ ingestions = << >>
    /\ activeJobId = 0
    /\ jobStatus = << >>
    /\ polls = {}
    /\ effect = 0
    /\ messages = << >>
    /\ input = << >>
    /\ isLoading = FALSE
    /\ conversationId = 0
    /\ inflight = << >>
    /\ sent = << >>
    /\ clears = 0
    /\ selectedConversation = 0
    /\ conversationDetail = 0
    /\ replyText = << >>
    /\ loadingDetail = FALSE
    /\ sendingReply = FALSE
    /\ detailRequests = << >>
    /\ replyRequests = << >>
    /\ loads = 0
    /\ widgetInput = << >>
    /\ bubbles = << >>
    /\ fetches = << >>
    /\ widgetConversationId = 0
    /\ location = "/connect"
    /\ searchParams = << >>
    /\ callbackStatus = "loading"
    /\ callbackMessage = "Processing authentication..."
    /\ timers = << >>
    /\ visits = 0

\* chunk_text is not running: its parameters at their defaults
ChunkerIdle ==
    /\ text = << >>
    /\ chunk_size = 500
    /\ overlap = 50
    /\ start = 0
    /\ text_chunks = << >>

FlowIdle ==
    /\ pc = "Idle"
    /\ request = [tenant_id |-> "t1", content |-> "delivery"]
    /\ llm_reply = NoReply
    /\ queries = << >>
    /\ qi = 1
    /\ per_variant = << >>
    /\ all_chunks = << >>
    /\ unique_chunks = << >>
    /\ chunks = << >>
    /\ top_chunks = << >>
    /\ context = << >>
    /\ error = NoError
    /\ reply = NoReply
    /\ rerank_k = 3

IndexInit ==
    /\ index = EmptyIndex
    /\ hits = << >>
    /\ lastOp = NoOp
    /\ FlowIdle
    /\ ChunkerIdle
    /\ AppIdle

\* ingestion: one chunk embedded and upserted under its id
Upsert ==
    \E id \in 1..MaxFuzzId, p \in Points :
        /\ index' = UpsertPoint(index, id, p)
        /\ hits' = << >>
        /\ lastOp' = [op |-> "upsert"]
        /\ UNCHANGED << flowVars, chunkVars, appVars >>

\* source removal
Delete ==
    \E t \in Tenants, st \in SourceTypes :
        /\ index' = DeletePoints(index, t, st)
        /\ hits' = << >>
        /\ lastOp' = [op |-> "delete"]
        /\ UNCHANGED << flowVars, chunkVars, appVars >>

SearchQdrant ==
    \E q \in Texts, t \in Tenants :
        /\ hits' = search_qdrant(index, q, t, 5)
        /\ index' = CollectionAfterSearch(index)
        /\ lastOp' = [op |-> "search_qdrant", tenant_id |-> t, query |-> q]
        /\ UNCHANGED << flowVars, chunkVars, appVars >>

SearchKnowledge ==
    \E q \in Texts, t \in Tenants :
        /\ hits' = search_knowledge(index, q, t, 3)
        /\ index' = CollectionAfterSearch(index)
        /\ lastOp' = [op |-> "search_knowledge", tenant_id |-> t, query |-> q]
        /\ UNCHANGED << flowVars, chunkVars, appVars >>

IndexNext == Upsert \/ Delete \/ SearchQdrant \/ SearchKnowledge

IndexSpec == IndexInit /\ [][IndexNext]_vars

\* SeededIndexSpec: searches on the seeded knowledge base and on what source
\* removals leave of it, down to the empty collection.
SeededIndexInit ==
    /\ index = SeedIndex
    /\ hits = << >>
    /\ lastOp = NoOp
    /\ FlowIdle
    /\ ChunkerIdle
    /\ AppIdle

SeededIndexNext == Delete \/ SearchQdrant \/ SearchKnowledge

SeededIndexSpec == SeededIndexInit /\ [][SeededIndexNext]_vars

----------------------------------------------------------------------------
(* The end-to-end RAG flow for one inbound message *)

\* What a call returns to its caller: a value, or a raised exception.
Return(v) == [ok |-> TRUE, value |-> v]
Raise(e)  == [ok |-> FALSE, exc |-> e]

\* What the language model may answer to the query expander: text that is no
\* JSON, JSON that is no array, or an array of phrasings; or the call fails.
ExpanderResponses ==
    { [kind |-> "unavailable"], [kind |-> "malformed"], [kind |-> "not_a_list"] }
    \cup { [kind |-> "array", items |-> s] : s \in SeqUpTo(Texts, MaxVariants) }

\* generate_query_variants with the original query appended last.
generate_query_variants_last(original_query, response) ==
    IF response.kind = "unavailable" THEN Raise("ProviderUnavailable")
    ELSE IF response.kind = "malformed" THEN Raise("JSONDecodeError")
    ELSE IF response.kind = "not_a_list" THEN Raise("TypeError")
    ELSE Return(response.items \o << original_query >>)

\* generate_query_variants(original_query): llm.invoke, json.loads and
\* [original_query] + variants; none of the three is guarded.
generate_query_variants(original_query, response) ==
    IF response.kind = "unavailable" THEN Raise("ProviderUnavailable")
    ELSE IF response.kind = "malformed" THEN Raise("JSONDecodeError")
    ELSE IF response.kind = "not_a_list" THEN Raise("TypeError")
    ELSE Return(<< original_query >> \o response.items)

\* The merge without deduplication: every chunk found, as often as found.
DeduplicateById_none(cs) == cs

\* unique_chunks = {chunk["id"]: chunk for chunk in all_chunks}: a key keeps
\* the position of its first occurrence and the value of its last one.
DeduplicateById(cs) ==
    LET IsFirst(k) == \A j \in 1..(k - 1) : cs[j].id # cs[k].id
        LastOf(k)  == CHOOSE j \in 1..Len(cs) :
                         /\ cs[j].id = cs[k].id
                         /\ \A l \in (j + 1)..Len(cs) : cs[l].id # cs[k].id
        firsts == SelectSeq([ k \in 1..Len(cs) |-> k ], IsFirst)
    IN  [ n \in 1..Len(firsts) |-> cs[LastOf(firsts[n])] ]

\* sorted_chunks[:12]
MergeCeiling == 12

\* The merge without the sort: the first twelve of the deduplicated chunks.
SortAndTruncate_unsorted(unique) == Take(unique, MergeCeiling)

\* sorted(unique_chunks.values(), key=score, reverse=True)[:12]
SortAndTruncate(unique) == Take(SortedByScoreDesc(unique), MergeCeiling)

\* rerank_by_score without its sort.
rerank_by_score_unsorted(cs, top_k) == Take(cs, top_k)

\* rerank_by_score(chunks, top_k)
rerank_by_score(cs, top_k) == Take(SortedByScoreDesc(cs), top_k)

\* A formatter that renders a block even when it is given no chunk.
format_rag_context_placeholder(cs) ==
    IF cs = << >>
    THEN << [label |-> 1, source |-> None, content |-> ""] >>
    ELSE [ i \in 1..Len(cs) |->
             [label |-> i, source |-> Get(cs[i].metadata, "filename", None),
              content |-> cs[i].content] ]

\* format_rag_context(chunks) of the roadmap: "" for no chunk, else one block
\* "Source {i}: {source}\n{content}" per chunk; source is
\* metadata.get("url") or metadata.get("filename", "Unknown").
format_rag_context_roadmap(cs) ==
    IF cs = << >> THEN << >>
    ELSE [ i \in 1..Len(cs) |->
             [label   |-> i,
              source  |-> LET url == Get(cs[i].metadata, "url", None)
                          IN  IF url # None THEN url
                              ELSE Get(cs[i].metadata, "filename", << "Unknown" >>),
              content |-> cs[i].content] ]

\* format_rag_context(chunks): one block "Source {i}: {source}\n{content}" per
\* chunk, i counting from 1, joined by the separator; the text is kept as the
\* list of its blocks, the empty list being the empty string. source is
\* metadata.get("source_url") or metadata.get("filename").
format_rag_context(cs) ==
    [ i \in 1..Len(cs) |->
        [label   |-> i,
         source  |-> LET source_url == Get(cs[i].metadata, "source_url", None)
                     IN  IF source_url # None THEN source_url
                         ELSE Get(cs[i].metadata, "filename", None),
         content |-> cs[i].content] ]

\* The stage that follows a completed stage: steps 1 to 5 of the flow.
NextStage(stage) ==
    CASE stage = "Received"   -> "Expanding"
      [] stage = "Expanding"  -> "Retrieving"
      [] stage = "Retrieving" -> "Reranking"
      [] stage = "Reranking"  -> "Formatting"
      [] stage = "Formatting" -> "Generating"
      [] stage = "Generating" -> "Delivered"

\* An exception raised by a step is caught nowhere: the handler ends and the
\* exception is what its caller gets. Every call of the flow is written once,
\* outside any loop, so the failing call was attempted once.
Propagate(step, exc) ==
    /\ pc' = "Failed"
    /\ error' = [step |-> step, exc |-> exc, attempts |-> 1]
    /\ reply' = [kind |-> "exception", exc |-> exc]

Init ==
    /\ index = SeedIndex
    /\ hits = << >>
    /\ lastOp = NoOp
    /\ pc = "Received"
    /\ request \in [tenant_id : Tenants, content : Texts]
    /\ llm_reply = NoReply
    /\ queries = << >>
    /\ qi = 1
    /\ per_variant = << >>
    /\ all_chunks = << >>
    /\ unique_chunks = << >>
    /\ chunks = << >>
    /\ top_chunks = << >>
    /\ context = << >>
    /\ error = NoError
    /\ reply = NoReply
    /\ rerank_k = 3
    /\ ChunkerIdle
    /\ AppIdle

\* the handler starts on the message
Accept ==
    /\ pc = "Received"
    /\ pc' = NextStage(pc)
    /\ UNCHANGED << indexVars, chunkVars, appVars, rerank_k, request, llm_reply, queries, qi, per_variant,
                    all_chunks, unique_chunks, chunks, top_chunks, context,
                    error, reply >>

\* 1. queries = generate_query_variants(query)
Expand ==
    /\ pc = "Expanding"
    /\ \E response \in ExpanderResponses :
         LET r == generate_query_variants(request.content, response)
         IN  /\ llm_reply' = response
             /\ IF r.ok
                THEN /\ queries' = r.value
                     /\ pc' = NextStage(pc)
                     /\ UNCHANGED << error, reply >>
                ELSE /\ Propagate("Expanding", r.exc)
                     /\ UNCHANGED queries
    /\ UNCHANGED << indexVars, chunkVars, appVars, rerank_k, request, qi, per_variant, all_chunks,
                    unique_chunks, chunks, top_chunks, context >>

\* 2. chunks = await multi_query_search(queries, tenant_id): one turn of the
\* loop "for query in queries"; the turn that ends the loop also deduplicates,
\* sorts, truncates and returns.
SearchVariant ==
    /\ pc = "Retrieving"
    /\ qi <= Len(queries)
    /\ \E outcome \in {"ok", "ProviderUnavailable", "IndexUnavailable"} :
         IF outcome = "ok"
         THEN LET found == search_qdrant(index, queries[qi], request.tenant_id, 5)
                  all   == all_chunks \o found
              IN  /\ index' = CollectionAfterSearch(index)
                  /\ per_variant' = Append(per_variant, found)
                  /\ all_chunks' = all
                  /\ qi' = qi + 1
                  /\ IF qi = Len(queries)
                     THEN /\ unique_chunks' = DeduplicateById(all)
                          /\ chunks' = SortAndTruncate(DeduplicateById(all))
                          /\ pc' = NextStage(pc)
                     ELSE UNCHANGED << unique_chunks, chunks, pc >>
                  /\ UNCHANGED << error, reply >>
         ELSE /\ Propagate("Retrieving", outcome)
              /\ UNCHANGED << index, per_variant, all_chunks, qi, unique_chunks,
                              chunks >>
    /\ UNCHANGED << hits, lastOp, chunkVars, appVars, rerank_k, request, llm_reply, queries,
                    top_chunks, context >>

\* 3. top_chunks = rerank_by_score(chunks, top_k=3)
Rerank ==
    /\ pc = "Reranking"
    /\ top_chunks' = rerank_by_score(chunks, rerank_k)
    /\ pc' = NextStage(pc)
    /\ UNCHANGED << indexVars, chunkVars, appVars, rerank_k, request, llm_reply, queries, qi, per_variant,
                    all_chunks, unique_chunks, chunks, context, error, reply >>

\* 4. context = format_rag_context(top_chunks)
Format ==
    /\ pc = "Formatting"
    /\ context' = format_rag_context(top_chunks)
    /\ pc' = NextStage(pc)
    /\ UNCHANGED << indexVars, chunkVars, appVars, rerank_k, request, llm_reply, queries, qi, per_variant,
                    all_chunks, unique_chunks, chunks, top_chunks, error, reply >>

\* 5. response = llm.invoke([system prompt with the context, user message])
Generate ==
    /\ pc = "Generating"
    /\ \E outcome \in {"ok", "Timeout", "ContentPolicyRejected", "ProviderUnavailable"} :
         IF outcome = "ok"
         THEN /\ reply' = [kind |-> "response", text |-> "answer"]
              /\ pc' = NextStage(pc)
              /\ UNCHANGED error
         ELSE Propagate("Generating", outcome)
    /\ UNCHANGED << indexVars, chunkVars, appVars, rerank_k, request, llm_reply, queries, qi, per_variant,
                    all_chunks, unique_chunks, chunks, top_chunks, context >>

Next == Accept \/ Expand \/ SearchVariant \/ Rerank \/ Format \/ Generate

Spec == Init /\ [][Next]_vars

\* Every call of the flow returns or raises: the handler is never stopped
\* between two steps.
FairSpec == Spec /\ WF_vars(Next)

----------------------------------------------------------------------------
(* HandlerSpec: handle_message of the roadmap, POST /api/v1/support/message *)

\* The messages customers send: questions the FAQ covers, a request for a
\* refund, a product question, a booking, a complaint and a message that
\* means nothing.
HandlerTexts ==
    {"Livraison ?", "retourner un colis", "LIVRAISON et retour",
     "remboursement", "garantie", "rendez-vous", "reclamation", "asdf"}

\* keyword in request.content.lower()
InLower(keyword, content) ==
    \/ keyword = "livraison" /\ content \in {"Livraison ?", "LIVRAISON et retour"}
    \/ keyword = "retour" /\ content \in {"retourner un colis", "LIVRAISON et retour"}

HandlerInit ==
    /\ index = SeedIndex
    /\ hits = << >>
    /\ lastOp = NoOp
    /\ pc = "Routing"
    /\ request \in [tenant_id : Tenants, content : HandlerTexts]
    /\ llm_reply = NoReply
    /\ queries = << >>
    /\ qi = 1
    /\ per_variant = << >>
    /\ all_chunks = << >>
    /\ unique_chunks = << >>
    /\ chunks = << >>
    /\ top_chunks = << >>
    /\ context = << >>
    /\ error = NoError
    /\ reply = NoReply
    /\ rerank_k = 3
    /\ ChunkerIdle
    /\ AppIdle

\* if "livraison" in content.lower() or "retour" in content.lower(): ... else
HandlerRoute ==
    /\ pc = "Routing"
    /\ IF InLower("livraison", request.content) \/ InLower("retour", request.content)
       THEN /\ pc' = "handle_faq"
            /\ handlers' = Append(handlers, "handle_faq")
       ELSE /\ pc' = "search_knowledge"
            /\ handlers' = Append(handlers, "rag")
    /\ UNCHANGED << indexVars, chunkVars, queueVars, pageVars, rerank_k, request, llm_reply,
                    queries, qi, per_variant, all_chunks, unique_chunks, chunks,
                    top_chunks, context, error, reply >>

\* response_text = await handle_faq(request.content)
HandleFaq ==
    /\ pc = "handle_faq"
    /\ \E outcome \in {"ok", "Timeout", "ContentPolicyRejected", "ProviderUnavailable"} :
         IF outcome = "ok"
         THEN /\ reply' = [kind |-> "response", text |-> "answer", intent |-> "faq"]
              /\ pc' = "Responded"
              /\ UNCHANGED error
         ELSE Propagate("handle_faq", outcome)
    /\ UNCHANGED << indexVars, chunkVars, appVars, rerank_k, request, llm_reply,
                    queries, qi, per_variant, all_chunks, unique_chunks, chunks,
                    top_chunks, context >>

\* chunks = await search_knowledge(request.content, request.tenant_id)
HandlerSearch ==
    /\ pc = "search_knowledge"
    /\ \E outcome \in {"ok", "ProviderUnavailable", "IndexUnavailable"} :
         IF outcome = "ok"
         THEN /\ chunks' = search_knowledge(index, request.content, request.tenant_id, 3)
              /\ index' = CollectionAfterSearch(index)
              /\ pc' = "format_rag_context"
              /\ UNCHANGED << error, reply >>
         ELSE /\ Propagate("search_knowledge", outcome)
              /\ UNCHANGED << index, chunks >>
    /\ UNCHANGED << hits, lastOp, chunkVars, appVars, rerank_k, request, llm_reply,
                    queries, qi, per_variant, all_chunks, unique_chunks,
                    top_chunks, context >>

\* context = format_rag_context(chunks)
HandlerFormat ==
    /\ pc = "format_rag_context"
    /\ context' = format_rag_context_roadmap(chunks)
    /\ pc' = "llm.ainvoke"
    /\ UNCHANGED << indexVars, chunkVars, appVars, rerank_k, request, llm_reply,
                    queries, qi, per_variant, all_chunks, unique_chunks, chunks,
                    top_chunks, error, reply >>

\* response = await llm.ainvoke([...]); return MessageResponse(intent="faq")
HandlerGenerate ==
    /\ pc = "llm.ainvoke"
    /\ \E outcome \in {"ok", "Timeout", "ContentPolicyRejected", "ProviderUnavailable"} :
         IF outcome = "ok"
         THEN /\ reply' = [kind |-> "response", text |-> "answer", intent |-> "faq"]
              /\ pc' = "Responded"
              /\ UNCHANGED error
         ELSE Propagate("llm.ainvoke", outcome)
    /\ UNCHANGED << indexVars, chunkVars, appVars, rerank_k, request, llm_reply,
                    queries, qi, per_variant, all_chunks, unique_chunks, chunks,
                    top_chunks, context >>

HandlerNext ==
    HandlerRoute \/ HandleFaq \/ HandlerSearch \/ HandlerFormat \/ HandlerGenerate

HandlerSpec == HandlerInit /\ [][HandlerNext]_vars

----------------------------------------------------------------------------
(* QueueSpec: the ingestion jobs of the RQ queues documents and websites *)

Queues == {"documents", "websites"}

\* The workers that take jobs from a queue: several documents are processed
\* in parallel, one website at a time.
Workers(queue) == IF queue = "websites" THEN 1 ELSE 2

Started(js, queue) ==
    { j \in 1..Len(js) : js[j].queue = queue /\ js[j].status = "started" }

\* A queue whose workers never count as busy.
FreeWorker_always(js, queue) == TRUE

\* A worker of the queue is free to take a job.
FreeWorker(js, queue) == Cardinality(Started(js, queue)) < Workers(queue)

QueueInit ==
    /\ index = EmptyIndex
    /\ hits = << >>
    /\ lastOp = NoOp
    /\ FlowIdle
    /\ ChunkerIdle
    /\ AppIdle

\* POST /api/v1/ingestion/document or /website: the job is enqueued and the
\* response says "queued".
Enqueue ==
    /\ Len(jobs) < MaxJobs
    /\ \E queue \in Queues :
         jobs' = Append(jobs, [queue |-> queue, status |-> "queued"])
    /\ UNCHANGED << indexVars, flowVars, chunkVars, handlerVars, pageVars >>

\* a free worker takes the oldest queued job of its queue
StartJob ==
    /\ \E j \in 1..Len(jobs) :
         /\ jobs[j].status = "queued"
         /\ \A i \in 1..(j - 1) :
               ~(jobs[i].queue = jobs[j].queue /\ jobs[i].status = "queued")
         /\ FreeWorker(jobs, jobs[j].queue)
         /\ jobs' = [jobs EXCEPT ![j].status = "started"]
    /\ UNCHANGED << indexVars, flowVars, chunkVars, handlerVars, pageVars >>

\* the job returns, or raises or runs into its timeout
EndJob ==
    /\ \E j \in 1..Len(jobs), status \in {"finished", "failed"} :
         /\ jobs[j].status = "started"
         /\ jobs' = [jobs EXCEPT ![j].status = status]
    /\ UNCHANGED << indexVars, flowVars, chunkVars, handlerVars, pageVars >>

QueueNext == Enqueue \/ StartJob \/ EndJob

QueueSpec == QueueInit /\ [][QueueNext]_vars

----------------------------------------------------------------------------
(* RerankSpec: the model-based reranker on the lists the retriever hands over *)

\* What the language model may answer to the reranker: text that is no JSON,
\* JSON that is no array, or an array of integers; or the call fails.
RerankResponses ==
    { [kind |-> "unavailable"], [kind |-> "malformed"], [kind |-> "not_a_list"] }
    \cup { [kind |-> "array", items |-> s] : s \in SeqUpTo(-1..MaxIdx, MaxReplyLen) }

\* chunks[i] of a Python list: i counts from 0, a negative i counts from the
\* end, anything else raises IndexError.
PyInRange(cs, i) == -Len(cs) <= i /\ i < Len(cs)
PyItem(cs, i) == IF i >= 0 THEN cs[i + 1] ELSE cs[Len(cs) + i + 1]

\* rerank_with_llm(original_query, chunks, top_k): llm.ainvoke, json.loads and
\* [chunks[i] for i in selected_indices[:top_k]]; none of the three is guarded.
rerank_with_llm(cs, top_k, response) ==
    IF response.kind = "unavailable" THEN Raise("ProviderUnavailable")
    ELSE IF response.kind = "malformed" THEN Raise("JSONDecodeError")
    ELSE IF response.kind = "not_a_list" THEN Raise("TypeError")
    ELSE LET selected == Take(response.items, top_k)
         IN  IF \E k \in 1..Len(selected) : ~PyInRange(cs, selected[k])
             THEN Raise("IndexError")
             ELSE Return([ k \in 1..Len(selected) |-> PyItem(cs, selected[k]) ])

\* multi_query_search(queries, tenant_id) when every search succeeds
SearchEach(idx, qs, tenant_id) ==
    [ i \in 1..Len(qs) |-> search_qdrant(idx, qs[i], tenant_id, 5) ]

RerankInit ==
    /\ index = SeedIndex
    /\ hits = << >>
    /\ lastOp = NoOp
    /\ pc = "Reranking"
    /\ request \in [tenant_id : Tenants, content : Texts]
    /\ llm_reply = NoReply
    /\ \E s \in SeqUpTo(Texts, 1) : queries = << request.content >> \o s
    /\ qi = Len(queries) + 1
    /\ per_variant = SearchEach(index, queries, request.tenant_id)
    /\ all_chunks = Flatten(per_variant)
    /\ unique_chunks = DeduplicateById(all_chunks)
    /\ chunks = SortAndTruncate(unique_chunks)
    /\ top_chunks = << >>
    /\ context = << >>
    /\ error = NoError
    /\ reply = NoReply
    /\ rerank_k = 3
    /\ ChunkerIdle
    /\ AppIdle

\* 3. top_chunks = await rerank_with_llm(query, chunks, top_k=3)
RerankWithLLM ==
    /\ pc = "Reranking"
    /\ \E response \in RerankResponses :
         LET r == rerank_with_llm(chunks, rerank_k, response)
         IN  /\ llm_reply' = response
             /\ IF r.ok
                THEN /\ top_chunks' = r.value
                     /\ pc' = NextStage(pc)
                     /\ UNCHANGED << error, reply >>
                ELSE /\ Propagate("Reranking", r.exc)
                     /\ UNCHANGED top_chunks
    /\ UNCHANGED << indexVars, chunkVars, appVars, rerank_k, request, queries, qi, per_variant, all_chunks,
                    unique_chunks, chunks, context >>

RerankNext == RerankWithLLM \/ Format

RerankSpec == RerankInit /\ [][RerankNext]_vars

----------------------------------------------------------------------------
(* ScoreRerankSpec: rerank_by_score on any list of candidates *)

\* A candidate as search_qdrant returns it: a chunk of a document of tenant
\* t1, with the score the search gave it.
Candidate(id, score) ==
    LET p == [tenant_id |-> "t1", source_type |-> "document", content |-> "returns"]
    IN  [id |-> id, content |-> p.content, score |-> score,
         source_type |-> p.source_type, metadata |-> MetadataOf(id, p)]

\* The lists of at most n candidates with distinct ids, in any order of score.
CandidateLists(n) ==
    UNION { { [ i \in 1..k |-> Candidate(i, sc[i]) ] : sc \in [1..k -> 0..2] } :
            k \in 0..n }

ScoreRerankInit ==
    /\ index = EmptyIndex
    /\ hits = << >>
    /\ lastOp = NoOp
    /\ pc = "Reranking"
    /\ request = [tenant_id |-> "t1", content |-> "returns"]
    /\ llm_reply = NoReply
    /\ queries = << request.content >>
    /\ qi = 2
    /\ chunks \in CandidateLists(MaxCands)
    /\ per_variant = << chunks >>
    /\ all_chunks = chunks
    /\ unique_chunks = chunks
    /\ top_chunks = << >>
    /\ context = << >>
    /\ error = NoError
    /\ reply = NoReply
    /\ rerank_k \in 0..(MaxCands + 1)
    /\ ChunkerIdle
    /\ AppIdle

ScoreRerankNext == Rerank \/ Format

ScoreRerankSpec == ScoreRerankInit /\ [][ScoreRerankNext]_vars

----------------------------------------------------------------------------
(* ChunkSpec: chunk_text(text, chunk_size, overlap), one turn of its loop at *)
(* a time                                                                    *)

\* The characters of a text: a blank and two letters.
Chars == {" ", "a", "b"}

\* text[from:to] for 0 <= from: the characters at the positions from .. to-1
\* (counted from 0), as many of them as the text has.
Slice(s, from, to) == SubSeq(s, from + 1, Min(to, Len(s)))

\* str.strip(): the text without its leading and trailing whitespace.
strip(s) ==
    LET solid == { i \in 1..Len(s) : s[i] # " " }
    IN  IF solid = {} THEN << >>
        ELSE SubSeq(s, CHOOSE i \in solid : \A j \in solid : i <= j,
                       CHOOSE i \in solid : \A j \in solid : i >= j)

\* A loop that does not advance: start += 0.
NextStart_stuck(s, size, ov) == s

\* start += chunk_size - overlap
NextStart(s, size, ov) == s + size - ov

ChunkInit ==
    /\ index = EmptyIndex
    /\ hits = << >>
    /\ lastOp = NoOp
    /\ pc = "Chunking"
    /\ request = [tenant_id |-> "t1", content |-> "delivery"]
    /\ llm_reply = NoReply
    /\ queries = << >>
    /\ qi = 1
    /\ per_variant = << >>
    /\ all_chunks = << >>
    /\ unique_chunks = << >>
    /\ chunks = << >>
    /\ top_chunks = << >>
    /\ context = << >>
    /\ error = NoError
    /\ reply = NoReply
    /\ rerank_k = 3
    /\ text \in SeqUpTo(Chars, MaxTextLen)
    /\ chunk_size \in 1..MaxChunkSize
    /\ overlap \in 0..(chunk_size - 1)
    /\ start = 0
    /\ text_chunks = << >>
    /\ AppIdle

\* one turn of "while start < len(text)"
ChunkStep ==
    /\ pc = "Chunking"
    /\ start < Len(text)
    /\ LET chunk == Slice(text, start, start + chunk_size)
       IN  text_chunks' = IF strip(chunk) # << >>
                          THEN Append(text_chunks, strip(chunk))
                          ELSE text_chunks
    /\ start' = NextStart(start, chunk_size, overlap)
    /\ UNCHANGED << indexVars, flowVars, appVars, text, chunk_size, overlap >>

\* the loop ends: return chunks
ChunkReturn ==
    /\ pc = "Chunking"
    /\ ~(start < Len(text))
    /\ pc' = "Chunked"
    /\ UNCHANGED << indexVars, request, llm_reply, queries, qi, per_variant,
                    all_chunks, unique_chunks, chunks, top_chunks, context,
                    error, reply, rerank_k, chunkVars, appVars >>

ChunkNext == ChunkStep \/ ChunkReturn

ChunkSpec == ChunkInit /\ [][ChunkNext]_vars

\* chunk_text runs to its end once called: nothing suspends it (it awaits
\* nothing).
ChunkFairSpec == ChunkSpec /\ WF_vars(ChunkNext)

----------------------------------------------------------------------------
(* KnowledgeSpec: the Knowledge page, its ingestion requests and the       *)
(* polling of the active job's status                                      *)

\* What the user may type into the max-pages field.
TypedValues ==
    { << >>, << "0" >>, << "7" >>, << "1", "0", "0" >>, << "5", "0", "0" >>,
      << "-", "5" >>, << "-" >>, << "5", "-" >> }

\* What the user may type into the URL field: nothing, a blank, an address.
TypedUrls == { << >>, << " " >>, << "a", "b" >> }

DigitChars == << "0", "1", "2", "3", "4", "5", "6", "7", "8", "9" >>

IsDigit(c) == \E i \in 1..Len(DigitChars) : DigitChars[i] = c

DigitValue(c) == (CHOOSE i \in 1..Len(DigitChars) : DigitChars[i] = c) - 1

NaN == [nan |-> TRUE, n |-> 0]

\* The value of the digits at the head of s, on top of acc.
RECURSIVE LeadingDigits(_, _)
LeadingDigits(s, acc) ==
    IF s = << >> \/ ~IsDigit(Head(s)) THEN acc
    ELSE LeadingDigits(Tail(s), 10 * acc + DigitValue(Head(s)))

\* parseInt(string): an optional sign and the digits that follow it; NaN
\* when no digit follows.
parseInt(s) ==
    LET signed == s # << >> /\ Head(s) \in {"-", "+"}
        digits == IF signed THEN Tail(s) ELSE s
    IN  IF digits = << >> \/ ~IsDigit(Head(digits)) THEN NaN
        ELSE [nan |-> FALSE,
              n   |-> IF signed /\ Head(s) = "-"
                      THEN 0 - LeadingDigits(digits, 0)
                      ELSE LeadingDigits(digits, 0)]

\* e.target.value of an <input type="number">: the text typed when it is a
\* number, the empty string otherwise.
NumberInputValue(typed) ==
    LET digits == IF typed # << >> /\ Head(typed) = "-" THEN Tail(typed)
                  ELSE typed
    IN  IF digits # << >> /\ \A i \in 1..Len(digits) : IsDigit(digits[i])
        THEN typed ELSE << >>

\* value || fallback: the fallback replaces NaN and 0.
OrElse(value, fallback) ==
    IF value.nan \/ value.n = 0 THEN fallback ELSE value.n

\* mutation.isPending: a request of the mutation awaits its response
IsPending(kind) ==
    \E i \in 1..Len(ingestions) :
        ingestions[i].kind = kind /\ ingestions[i].state \in {"sent", "accepted"}

\* query.state.data of ["jobStatus", id]: the last status fetched, if any
StatusData(id) == IF id \in DOMAIN jobStatus THEN jobStatus[id] ELSE "none"

KnowledgeInit ==
    /\ index = EmptyIndex
    /\ hits = << >>
    /\ lastOp = NoOp
    /\ FlowIdle
    /\ ChunkerIdle
    /\ AppIdle

\* the URL field, disabled while a crawl request is pending
SetWebsiteUrl ==
    /\ ~IsPending("website")
    /\ \E typed \in TypedUrls : websiteUrl' = typed
    /\ UNCHANGED << aroundKnowledge, queueVars, maxPages, ingestions,
                    activeJobId, jobStatus, polls, effect >>

\* the max-pages field: onChange
SetMaxPages ==
    /\ \E typed \in TypedValues :
         maxPages' = OrElse(parseInt(NumberInputValue(typed)), 50)
    /\ UNCHANGED << aroundKnowledge, queueVars, websiteUrl, ingestions,
                    activeJobId, jobStatus, polls, effect >>

\* Start Crawl, disabled while a crawl request is pending or the URL is
\* blank: handleStartCrawl
handleStartCrawl ==
    /\ Len(ingestions) < MaxIngests
    /\ ~IsPending("website")
    /\ strip(websiteUrl) # << >>
    /\ ingestions' = Append(ingestions,
           [kind |-> "website", state |-> "sent", job_id |-> 0,
            body |-> [url |-> websiteUrl, max_pages |-> maxPages]])
    /\ UNCHANGED << aroundKnowledge, queueVars, websiteUrl, maxPages,
                    activeJobId, jobStatus, polls, effect >>

\* a file chosen or dropped and uploaded: handleFileUpload
handleFileUpload ==
    /\ Len(ingestions) < MaxIngests
    /\ ingestions' = Append(ingestions,
           [kind |-> "document", state |-> "sent", job_id |-> 0,
            body |-> [document_id |-> "doc"]])
    /\ UNCHANGED << aroundKnowledge, queueVars, websiteUrl, maxPages,
                    activeJobId, jobStatus, polls, effect >>

\* the server enqueues the job of an ingestion request
ServerEnqueue ==
    /\ \E i \in 1..Len(ingestions) :
         /\ ingestions[i].state = "sent"
         /\ jobs' = Append(jobs,
                [queue  |-> IF ingestions[i].kind = "website"
                            THEN "websites" ELSE "documents",
                 status |-> "queued"])
         /\ ingestions' = [ingestions EXCEPT ![i].state = "accepted",
                                             ![i].job_id = Len(jobs')]
    /\ UNCHANGED << aroundKnowledge, websiteUrl, maxPages, activeJobId,
                    jobStatus, polls, effect >>

\* The response of an ingestion request arrives: onSuccess. An effect still
\* due runs before the page renders again, so after setActiveJobId(job_id).
IngestResponse ==
    /\ \E i \in 1..Len(ingestions) :
         /\ ingestions[i].state = "accepted"
         /\ ingestions' = [ingestions EXCEPT ![i].state = "ok"]
         /\ activeJobId' =
                IF effect # 0 /\ StatusData(effect) \in {"finished", "failed"}
                THEN 0 ELSE ingestions[i].job_id
    /\ effect' = 0
    /\ UNCHANGED << aroundKnowledge, queueVars, websiteUrl, maxPages,
                    jobStatus, polls >>

\* an ingestion request fails: onError
IngestError ==
    /\ \E i \in 1..Len(ingestions) :
         /\ ingestions[i].state = "sent"
         /\ ingestions' = [ingestions EXCEPT ![i].state = "failed"]
    /\ UNCHANGED << aroundKnowledge, queueVars, websiteUrl, maxPages,
                    activeJobId, jobStatus, polls, effect >>

\* A status query that is refetched whatever its data.
RefetchInterval_always(data) == 2000

\* refetchInterval of the status query: false once the data is final
RefetchInterval(data) == IF data \in {"finished", "failed"} THEN 0 ELSE 2000

\* The status query fetches: when enabled, at first and then at every
\* interval, one request at a time.
Poll ==
    /\ activeJobId # 0
    /\ activeJobId \notin polls
    /\ RefetchInterval(StatusData(activeJobId)) # 0
    /\ polls' = polls \cup {activeJobId}
    /\ UNCHANGED << aroundKnowledge, queueVars, websiteUrl, maxPages,
                    ingestions, activeJobId, jobStatus, effect >>

\* A status request returns the job's status; the effect on jobStatus is due
\* when the page shows this job.
PollResponse ==
    /\ \E id \in polls :
         /\ polls' = polls \ {id}
         /\ jobStatus' = (id :> jobs[id].status) @@ jobStatus
         /\ effect' = IF id = activeJobId THEN id ELSE effect
    /\ UNCHANGED << aroundKnowledge, queueVars, websiteUrl, maxPages,
                    ingestions, activeJobId >>

\* a status request fails
PollError ==
    /\ \E id \in polls : polls' = polls \ {id}
    /\ UNCHANGED << aroundKnowledge, queueVars, websiteUrl, maxPages,
                    ingestions, activeJobId, jobStatus, effect >>

\* useEffect on jobStatus
JobStatusEffect ==
    /\ effect # 0
    /\ effect' = 0
    /\ activeJobId' = IF StatusData(effect) \in {"finished", "failed"}
                      THEN 0 ELSE activeJobId
    /\ UNCHANGED << aroundKnowledge, queueVars, websiteUrl, maxPages,
                    ingestions, jobStatus, polls >>

\* the crawl form and the requests it sends
KnowledgeFormNext ==
    \/ SetWebsiteUrl
    \/ SetMaxPages
    \/ handleStartCrawl
    \/ ServerEnqueue
    \/ IngestResponse
    \/ IngestError

KnowledgeFormSpec == KnowledgeInit /\ [][KnowledgeFormNext]_vars

\* The ingestion requests of uploaded documents, which may overlap, their
\* jobs and the status query.
KnowledgeNext ==
    \/ handleFileUpload
    \/ ServerEnqueue
    \/ IngestResponse
    \/ IngestError
    \/ StartJob
    \/ EndJob
    \/ Poll
    \/ PollResponse
    \/ PollError
    \/ JobStatusEffect

KnowledgeSpec == KnowledgeInit /\ [][KnowledgeNext]_vars

----------------------------------------------------------------------------
(* PlaygroundSpec: the Playground page, its messages and its conversation *)

\* The conversation the server opens for a request that names none: one per
\* such request.
NewConversationId(req) == req.seq

\* A request body that never names the conversation.
PlaygroundMessage_unnamed(txt) == [content |-> txt, conversation_id |-> 0]

\* The body of the request: the text and the conversationId of the render,
\* 0 when it is null and the field left undefined.
PlaygroundMessage(txt) == [content |-> txt, conversation_id |-> conversationId]

PlaygroundInit ==
    /\ index = EmptyIndex
    /\ hits = << >>
    /\ lastOp = NoOp
    /\ FlowIdle
    /\ ChunkerIdle
    /\ AppIdle

\* the message field: onChange
SetInput ==
    /\ \E typed \in TypedUrls : input' = typed
    /\ UNCHANGED << aroundPlayground, messages, isLoading, conversationId,
                    inflight, sent, clears >>

\* A handleSend that does not look at isLoading.
MaySend_whileLoading == strip(input) # << >>

\* The request handleSend may issue: none for a blank input, none while
\* isLoading.
MaySend == strip(input) # << >> /\ ~isLoading

\* handleSend up to its await: the user message is appended, the input
\* emptied and the request sent with the conversationId of this render,
\* which the continuation keeps.
handleSend ==
    /\ MaySend
    /\ Len(sent) < MaxSends
    /\ messages' = Append(messages,
           [role |-> "user", content |-> input, clears |-> clears])
    /\ input' = << >>
    /\ isLoading' = TRUE
    /\ inflight' = Append(inflight,
           [content |-> input,
            conversation_id |-> PlaygroundMessage(input).conversation_id,
            conversationId |-> conversationId, clears |-> clears,
            seq |-> Len(sent) + 1])
    /\ sent' = Append(sent,
           [content |-> input,
            conversation_id |-> PlaygroundMessage(input).conversation_id,
            clears |-> clears])
    /\ UNCHANGED << aroundPlayground, conversationId, clears >>

\* handleSend after its await, the request fulfilled: the server answers in
\* the conversation named, or in a new one.
SendResponse ==
    /\ \E i \in 1..Len(inflight) :
         LET req == inflight[i]
             response == [response |-> "answer",
                          conversation_id |->
                              IF req.conversation_id # 0
                              THEN req.conversation_id
                              ELSE NewConversationId(req)]
         IN  /\ conversationId' = IF req.conversationId = 0
                                  THEN response.conversation_id
                                  ELSE conversationId
             /\ messages' = Append(messages,
                    [role |-> "assistant", content |-> response.response,
                     clears |-> req.clears])
             /\ isLoading' = FALSE
             /\ inflight' = SubSeq(inflight, 1, i - 1)
                               \o SubSeq(inflight, i + 1, Len(inflight))
    /\ UNCHANGED << aroundPlayground, input, sent, clears >>

\* handleSend after its await, the request rejected
SendError ==
    /\ \E i \in 1..Len(inflight) :
         inflight' = SubSeq(inflight, 1, i - 1)
                       \o SubSeq(inflight, i + 1, Len(inflight))
    /\ isLoading' = FALSE
    /\ UNCHANGED << aroundPlayground, messages, input, conversationId, sent,
                    clears >>

handleClear ==
    /\ clears < MaxClears
    /\ messages' = << >>
    /\ conversationId' = 0
    /\ clears' = clears + 1
    /\ UNCHANGED << aroundPlayground, input, isLoading, inflight, sent >>

PlaygroundNext ==
    \/ SetInput
    \/ handleSend
    \/ SendResponse
    \/ SendError
    \/ handleClear

PlaygroundSpec == PlaygroundInit /\ [][PlaygroundNext]_vars

----------------------------------------------------------------------------
(* ActivitySpec: the Activity page, the conversation selected and the     *)
(* conversation shown                                                     *)

\* the conversations of the list
Conversations == {1, 2}

\* s without its i-th element
Without(s, i) == SubSeq(s, 1, i - 1) \o SubSeq(s, i + 1, Len(s))

ActivityInit ==
    /\ index = EmptyIndex
    /\ hits = << >>
    /\ lastOp = NoOp
    /\ FlowIdle
    /\ ChunkerIdle
    /\ AppIdle

\* a conversation of the list is clicked: handleSelectConversation, and
\* loadConversationDetail up to its await
handleSelectConversation ==
    /\ loads < MaxLoads
    /\ \E conv \in Conversations :
         /\ selectedConversation' = conv
         /\ detailRequests' = Append(detailRequests,
                [conversationId |-> conv, reply |-> FALSE])
    /\ loadingDetail' = TRUE
    /\ loads' = loads + 1
    /\ UNCHANGED << aroundActivity, conversationDetail, replyText,
                    sendingReply, replyRequests >>

\* loadConversationDetail after its await: a detail request settles, in any
\* order; the one handleSendReply awaits ends the sending.
loadConversationDetail ==
    /\ \E i \in 1..Len(detailRequests), ok \in BOOLEAN :
         /\ conversationDetail' = IF ok THEN detailRequests[i].conversationId
                                  ELSE conversationDetail
         /\ sendingReply' = IF detailRequests[i].reply THEN FALSE
                             ELSE sendingReply
         /\ detailRequests' = Without(detailRequests, i)
    /\ loadingDetail' = FALSE
    /\ UNCHANGED << aroundActivity, selectedConversation, replyText,
                    replyRequests, loads >>

\* the reply field: onChange
SetReplyText ==
    /\ \E typed \in TypedUrls : replyText' = typed
    /\ UNCHANGED << aroundActivity, selectedConversation, conversationDetail,
                    loadingDetail, sendingReply, detailRequests,
                    replyRequests, loads >>

\* handleSendReply up to its first await
handleSendReply ==
    /\ selectedConversation # 0
    /\ strip(replyText) # << >>
    /\ ~sendingReply
    /\ sendingReply' = TRUE
    /\ replyRequests' = Append(replyRequests, selectedConversation)
    /\ UNCHANGED << aroundActivity, selectedConversation, conversationDetail,
                    replyText, loadingDetail, detailRequests, loads >>

\* handleSendReply after replyToConversation: the reply is sent and the
\* conversation replied to is loaded again, or the request failed.
replyToConversation ==
    /\ \E i \in 1..Len(replyRequests) :
         /\ replyRequests' = Without(replyRequests, i)
         /\ \/ /\ loads < MaxLoads
               /\ replyText' = << >>
               /\ detailRequests' = Append(detailRequests,
                      [conversationId |-> replyRequests[i], reply |-> TRUE])
               /\ loadingDetail' = TRUE
               /\ loads' = loads + 1
               /\ UNCHANGED sendingReply
            \/ /\ sendingReply' = FALSE
               /\ UNCHANGED << replyText, detailRequests, loadingDetail,
                               loads >>
    /\ UNCHANGED << aroundActivity, selectedConversation, conversationDetail >>

ActivityNext ==
    \/ handleSelectConversation
    \/ loadConversationDetail
    \/ SetReplyText
    \/ handleSendReply
    \/ replyToConversation

ActivitySpec == ActivityInit /\ [][ActivityNext]_vars

----------------------------------------------------------------------------
(* WidgetSpec: the embedded chat widget, its bubbles and its overlapping   *)
(* sendMessage calls                                                       *)

\* A hideTyping that removes nothing.
hideTyping_none(children) == children

\* hideTyping: the first element with the id of the typing indicator is
\* removed, if there is one.
hideTyping(children) ==
    LET typing == { i \in 1..Len(children) : children[i].role = "typing" }
    IN  IF typing = {} THEN children
        ELSE Without(children, CHOOSE i \in typing : \A j \in typing : i <= j)

WidgetInit ==
    /\ index = EmptyIndex
    /\ hits = << >>
    /\ lastOp = NoOp
    /\ FlowIdle
    /\ ChunkerIdle
    /\ AppIdle

\* the visitor types into the message field
SetWidgetInput ==
    /\ \E typed \in TypedUrls : widgetInput' = typed
    /\ UNCHANGED << aroundWidget, bubbles, fetches, widgetConversationId >>

\* sendMessage up to its await of fetch: addMessage, showTyping
sendMessage ==
    /\ strip(widgetInput) # << >>
    /\ Cardinality({ i \in 1..Len(bubbles) : bubbles[i].role = "user" })
           < MaxWidgetSends
    /\ bubbles' = bubbles \o
           << [role |-> "user", content |-> strip(widgetInput)],
              [role |-> "typing", content |-> << >>] >>
    /\ widgetInput' = << >>
    /\ fetches' = Append(fetches,
           [content |-> strip(widgetInput), awaits |-> "fetch"])
    /\ UNCHANGED << aroundWidget, widgetConversationId >>

\* sendMessage after fetch: a response with response.ok, whose body is then
\* awaited; or a response without, or no response at all, and the catch
\* block.
FetchSettles ==
    /\ \E i \in 1..Len(fetches), outcome \in {"ok", "not ok", "rejected"} :
         /\ fetches[i].awaits = "fetch"
         /\ \/ /\ outcome = "ok"
               /\ bubbles' = hideTyping(bubbles)
               /\ fetches' = [fetches EXCEPT ![i].awaits = "json"]
            \/ /\ outcome = "not ok"
               /\ bubbles' = Append(hideTyping(hideTyping(bubbles)),
                      [role |-> "assistant", content |-> "problemes de connexion"])
               /\ fetches' = Without(fetches, i)
            \/ /\ outcome = "rejected"
               /\ bubbles' = Append(hideTyping(bubbles),
                      [role |-> "assistant", content |-> "problemes de connexion"])
               /\ fetches' = Without(fetches, i)
    /\ UNCHANGED << aroundWidget, widgetInput, widgetConversationId >>

\* sendMessage after response.json(): the body read, with or without a
\* response text and a conversation_id (0 when it has none); or not read,
\* and the catch block.
JsonSettles ==
    /\ \E i \in 1..Len(fetches) :
         /\ fetches[i].awaits = "json"
         /\ fetches' = Without(fetches, i)
         /\ \/ \E data \in [response : {"answer", ""}, conversation_id : {0, 1}] :
                 /\ widgetConversationId' =
                        IF data.conversation_id # 0 THEN data.conversation_id
                        ELSE widgetConversationId
                 /\ bubbles' = Append(bubbles,
                        [role |-> "assistant",
                         content |-> IF data.response # "" THEN data.response
                                     ELSE "pas pu traiter cela"])
            \/ /\ bubbles' = Append(hideTyping(bubbles),
                      [role |-> "assistant", content |-> "problemes de connexion"])
               /\ UNCHANGED widgetConversationId
    /\ UNCHANGED << aroundWidget, widgetInput >>

WidgetNext ==
    \/ SetWidgetInput
    \/ sendMessage
    \/ FetchSettles
    \/ JsonSettles

WidgetSpec == WidgetInit /\ [][WidgetNext]_vars

----------------------------------------------------------------------------
(* CallbackSpec: the OAuth callback page *)

\* searchParams.get(name): null ("absent"), an empty string or a value
ParamValues == {"absent", "", "x"}

\* An effect that does not look at the error parameter.
CallbackOutcome_noError(params) ==
    IF params.code \in {"absent", ""} \/ params.state \in {"absent", ""}
    THEN [status |-> "error", message |-> "Invalid callback parameters",
          delay |-> 3000]
    ELSE [status |-> "success", message |-> "Account connected successfully!",
          delay |-> 2000]

\* The effect of CallbackHandler: the status, the message and the delay of
\* the redirection, by the truthiness of error, code and state.
CallbackOutcome(params) ==
    IF params.error \notin {"absent", ""}
    THEN [status  |-> "error",
          message |-> IF params.error_description \notin {"absent", ""}
                      THEN params.error_description
                      ELSE "Authentication failed",
          delay   |-> 3000]
    ELSE IF params.code \in {"absent", ""} \/ params.state \in {"absent", ""}
    THEN [status |-> "error", message |-> "Invalid callback parameters",
          delay |-> 3000]
    ELSE [status |-> "success", message |-> "Account connected successfully!",
          delay |-> 2000]

CallbackInit ==
    /\ index = EmptyIndex
    /\ hits = << >>
    /\ lastOp = NoOp
    /\ FlowIdle
    /\ ChunkerIdle
    /\ AppIdle

\* The OAuth provider sends the browser to /callback with its parameters: the
\* page is mounted.
OAuthRedirect ==
    /\ location = "/connect"
    /\ visits < MaxCallbacks
    /\ \E params \in [error : ParamValues, error_description : ParamValues,
                        code : ParamValues, state : ParamValues] :
         searchParams' = params
    /\ location' = "/callback"
    /\ callbackStatus' = "loading"
    /\ callbackMessage' = "Processing authentication..."
    /\ visits' = visits + 1
    /\ UNCHANGED << aroundCallback, timers >>

\* useEffect, after the first render
CallbackEffect ==
    /\ location = "/callback"
    /\ callbackStatus = "loading"
    /\ callbackStatus' = CallbackOutcome(searchParams).status
    /\ callbackMessage' = CallbackOutcome(searchParams).message
    /\ timers' = Append(timers, CallbackOutcome(searchParams).delay)
    /\ UNCHANGED << aroundCallback, location, searchParams, visits >>

\* a timeout set by the effect expires: navigate("/connect")
TimerFires ==
    /\ timers # << >>
    /\ timers' = Tail(timers)
    /\ location' = "/connect"
    /\ UNCHANGED << aroundCallback, searchParams, callbackStatus,
                    callbackMessage, visits >>

CallbackNext ==
    \/ OAuthRedirect
    \/ CallbackEffect
    \/ TimerFires

CallbackSpec == CallbackInit /\ [][CallbackNext]_vars

\* React runs the effect of a mounted page, and a timeout expires.
CallbackFairSpec ==
    CallbackSpec /\ WF_vars(CallbackEffect) /\ WF_vars(TimerFires)

----------------------------------------------------------------------------
(* Properties *)

\* multi_query_search has returned
Retrieved == queries # << >> /\ qi > Len(queries)

HasTenantChunk(t) == \E id \in DOMAIN index : index[id].tenant_id = t

\* C1 (IndexSpec): tenant isolation. After any sequence of upserts and
\* deletes, every candidate a search made for tenant T returns comes from a
\* chunk of the collection whose tenant_id is T, and a search for a tenant
\* that has no chunk returns the empty list.
C1_TenantIsolation ==
    /\ lastOp.op = "search_qdrant" =>
         \A i \in 1..Len(hits) :
            /\ hits[i].id \in DOMAIN index
            /\ index[hits[i].id].tenant_id = lastOp.tenant_id
    /\ lastOp.op = "search_knowledge" =>
         \A i \in 1..Len(hits) :
            \E id \in DOMAIN index :
               /\ index[id].tenant_id = lastOp.tenant_id
               /\ index[id].content = hits[i].content
               /\ index[id].source_type = hits[i].source_type
    /\ (lastOp.op \in {"search_qdrant", "search_knowledge"}
        /\ ~HasTenantChunk(lastOp.tenant_id)) => hits = << >>

\* C1 witness: a search for one tenant returned candidates while the
\* collection also held a searchable chunk of another tenant.
C1_Witness ==
    /\ lastOp.op = "search_qdrant"
    /\ Len(hits) > 0
    /\ \E id \in DOMAIN index :
          /\ index[id].tenant_id # lastOp.tenant_id
          /\ index[id].source_type \in {"document", "website"}

\* C2 (Spec): once the multi-query search has returned, every chunk id found
\* by some variant occurs exactly once in the merged set, with the maximum
\* score the chunk received over all variants.
C2_DedupKeepsMaxScore ==
    Retrieved =>
      \A k \in 1..Len(all_chunks) :
         /\ Cardinality({ i \in 1..Len(unique_chunks) :
                            unique_chunks[i].id = all_chunks[k].id }) = 1
         /\ \A i \in 1..Len(unique_chunks) :
               unique_chunks[i].id = all_chunks[k].id
                 => unique_chunks[i].score >= all_chunks[k].score

\* The fixed text the handler is to answer with when a step fails.
FallbackText == "fallback"

\* C3 (Spec): whenever a step of the flow has failed, the caller of the
\* handler gets the fixed fallback text as a response, never an exception.
C3_FailureGivesFallback ==
    pc = "Failed" => (reply.kind = "response" /\ reply.text = FallbackText)

\* The attempts the retry policy gives a failing call: ProviderUnavailable is
\* retried once, nothing else is retried.
PolicyAttempts(exc) == IF exc = "ProviderUnavailable" THEN 2 ELSE 1

StageOrder == << "Received", "Expanding", "Retrieving", "Reranking",
                 "Formatting", "Generating", "Delivered" >>

StagePos(stage) == CHOOSE i \in 1..Len(StageOrder) : StageOrder[i] = stage

\* C4 (FairSpec): a message moves through Received, Expanding, Retrieving,
\* Reranking, Formatting, Generating, Delivered in that order, one stage at a
\* time; the only other state is Failed, entered from a step that has used up
\* the attempts of its retry policy; Delivered and Failed are never left; and
\* every message ends in one of the two.
C4_StageMachine ==
    /\ [][ /\ pc \notin {"Delivered", "Failed"}
           /\ \/ pc' = pc
              \/ pc' = StageOrder[StagePos(pc) + 1]
              \/ /\ pc' = "Failed"
                 /\ error'.step = pc
                 /\ error'.attempts >= PolicyAttempts(error'.exc) ]_vars
    /\ <>(pc \in {"Delivered", "Failed"})

\* The reply of the language model is one the reranker must not use: no list
\* of integers, or an index out of range or repeated.
InvalidSelection(response, cs) ==
    \/ response.kind \in {"malformed", "not_a_list"}
    \/ /\ response.kind = "array"
       /\ \/ \E k \in 1..Len(response.items) :
                response.items[k] < 0 \/ response.items[k] >= Len(cs)
          \/ \E k, l \in 1..Len(response.items) :
                k # l /\ response.items[k] = response.items[l]

\* C5 (RerankSpec): when the reply to the model-based reranker is no list of
\* integers or holds an index out of range or repeated, the reranker raises
\* nothing and returns what rerank_by_score returns for the same candidates
\* and top_k.
C5_InvalidReplyFallsBackToScore ==
    (pc # "Reranking" /\ InvalidSelection(llm_reply, chunks)) =>
       /\ error = NoError
       /\ top_chunks = rerank_by_score(chunks, 3)

\* C6 (Spec): when the generator behind the expander fails or returns
\* something that is no list of strings, expansion raises nothing and the
\* retrieval runs on the original query alone.
C6_ExpanderFailsOpen ==
    llm_reply.kind \in {"unavailable", "malformed", "not_a_list"} =>
       /\ pc # "Failed"
       /\ queries = << request.content >>

\* C7 (Spec): a failed or timed-out embed+search call of one variant does not
\* abort the retrieval.
C7_VariantFailureDoesNotAbort ==
    error.step = "Retrieving" => pc # "Failed"

\* The per-variant results taken in the order p.
Reordered(p) == [ i \in 1..Len(per_variant) |-> per_variant[p[i]] ]

\* C8 (Spec): the merged, deduplicated candidate set is the same whatever the
\* order of the per-variant searches, and it is built only once every variant
\* has returned.
C8_MergeIsOrderIndependent ==
    /\ unique_chunks # << >> => Retrieved
    /\ Retrieved =>
         \A p \in Permutations(1..Len(per_variant)) :
            Range(DeduplicateById(Flatten(Reordered(p)))) = Range(unique_chunks)

\* C9 (Spec): the list handed to the reranker is sorted by descending score,
\* has at most MergeCeiling entries, all of them from the deduplicated set,
\* and no dropped candidate has a higher score than a kept one.
C9_SortedAndTruncated ==
    Retrieved =>
      /\ Len(chunks) <= MergeCeiling
      /\ Len(chunks) = Min(MergeCeiling, Len(unique_chunks))
      /\ \A i \in 1..Len(chunks) : \A j \in 1..Len(chunks) :
            i < j => chunks[i].score >= chunks[j].score
      /\ Range(chunks) \subseteq Range(unique_chunks)
      /\ \A d \in Range(unique_chunks) \ Range(chunks) :
            \A k \in Range(chunks) : d.score <= k.score

\* C9 witness: more than MergeCeiling distinct chunks were found, with
\* different scores among the kept ones.
C9_Witness ==
    /\ Retrieved
    /\ Len(unique_chunks) > MergeCeiling
    /\ Len(chunks) = MergeCeiling
    /\ \E i, j \in 1..Len(chunks) : chunks[i].score > chunks[j].score

\* C10 (Spec): the list of variants used for retrieval has the original user
\* query as its first element, whatever the expander returned.
C10_OriginalQueryFirst ==
    queries # << >> => queries[1] = request.content

\* C10 witness: the expander returned phrasings other than the original and
\* the retrieval started on the combined list.
C10_Witness ==
    /\ pc = "Retrieving"
    /\ Len(queries) > 1
    /\ \A i \in 2..Len(queries) : queries[i] # request.content

\* C11 (ScoreRerankSpec): rerank_by_score returns min(top_k, number of
\* candidates) candidates, all of them from its input and none twice, a
\* candidate of higher score always before one of lower score, and no
\* candidate it leaves out has a higher score than one it returns.
C11_ScoreRerank ==
    pc # "Reranking" =>
      /\ Len(top_chunks) = Min(rerank_k, Len(chunks))
      /\ Range(top_chunks) \subseteq Range(chunks)
      /\ \A i, j \in 1..Len(top_chunks) : i # j => top_chunks[i] # top_chunks[j]
      /\ \A i, j \in 1..Len(top_chunks) :
            top_chunks[i].score > top_chunks[j].score => i < j
      /\ \A d \in Range(chunks) \ Range(top_chunks) :
            \A k \in Range(top_chunks) : d.score <= k.score

\* C11 witness: rerank_by_score was given more candidates than it was asked
\* for, not sorted by score, and returned several of them.
C11_Witness ==
    /\ pc # "Reranking"
    /\ rerank_k >= 2
    /\ Len(chunks) > rerank_k
    /\ Len(top_chunks) = rerank_k
    /\ \E i, j \in 1..Len(chunks) : i < j /\ chunks[i].score < chunks[j].score

\* C12 (Spec): deduplication is idempotent. The deduplicated set holds no
\* chunk id twice, and merging it with itself (or deduplicating it again)
\* gives the same candidates with the same scores.
C12_DedupIsIdempotent ==
    Retrieved =>
      /\ \A i, j \in 1..Len(unique_chunks) :
            i # j => unique_chunks[i].id # unique_chunks[j].id
      /\ DeduplicateById(unique_chunks \o unique_chunks) = unique_chunks
      /\ DeduplicateById(unique_chunks) = unique_chunks

\* C12 witness: the variants found some chunk more than once, with different
\* scores, and the deduplicated set holds several chunks.
C12_Witness ==
    /\ Retrieved
    /\ Len(unique_chunks) >= 2
    /\ \E i, j \in 1..Len(all_chunks) :
          /\ all_chunks[i].id = all_chunks[j].id
          /\ all_chunks[i].score # all_chunks[j].score

\* The window start positions 0, size-overlap, 2*(size-overlap), ... below
\* the length of the text.
WindowStarts ==
    { s \in 0..(Len(text) - 1) : s % (chunk_size - overlap) = 0 }

\* The window that starts at s: chunk_size characters, fewer at the end.
Window(s) == Slice(text, s, s + chunk_size)

IsBlank(w) == \A i \in 1..Len(w) : w[i] = " "

\* The starts of the windows that are not whitespace-only, in increasing
\* order. chunk_text configures no minimum length, so these are all the
\* windows a chunk is due for.
KeptStarts == IdsInOrder({ s \in WindowStarts : ~IsBlank(Window(s)) })

\* C13 (ChunkSpec): for 0 <= overlap < chunk_size, the chunks laid back at
\* the start positions of their windows reconstruct the text: every chunk
\* agrees with the text character by character from its window start on, and
\* every character of a window that was not dropped is given by some chunk.
C13_ChunksReconstructText ==
    pc = "Chunked" =>
      /\ Len(text_chunks) = Len(KeptStarts)
      /\ \A k \in 1..Len(text_chunks) :
            \A i \in 1..Len(text_chunks[k]) :
               /\ KeptStarts[k] + i <= Len(text)
               /\ text[KeptStarts[k] + i] = text_chunks[k][i]
      /\ \A q \in 1..Len(text) :
            (\E k \in 1..Len(KeptStarts) :
                KeptStarts[k] < q /\ q <= KeptStarts[k] + chunk_size)
            => \E k \in 1..Len(text_chunks) :
                  KeptStarts[k] < q /\ q <= KeptStarts[k] + Len(text_chunks[k])

\* C14 (ChunkSpec): chunk_text emits, in increasing order of window start,
\* the slice of the text of length chunk_size (shorter at the end of the
\* text) for every window that is not whitespace-only, and nothing else.
C14_ChunksAreTheWindows ==
    pc = "Chunked" =>
      text_chunks = [ k \in 1..Len(KeptStarts) |-> Window(KeptStarts[k]) ]

\* C15 (ChunkFairSpec): for 0 <= overlap < chunk_size, chunk_text terminates,
\* every turn of its loop moves start forward and adds at most one chunk, and
\* it never holds more chunks than there are window start positions.
C15_ChunkingTerminates ==
    /\ [][ /\ start' >= start
           /\ Len(text_chunks') <= Len(text_chunks) + 1
           /\ Len(text_chunks') > Len(text_chunks) => start' > start
           /\ Len(text_chunks') <= Cardinality(WindowStarts) ]_vars
    /\ <>(pc = "Chunked")

\* C15 witness: chunk_text returned several chunks from overlapping windows.
C15_Witness ==
    /\ pc = "Chunked"
    /\ overlap > 0
    /\ Len(text_chunks) >= 3
    /\ Len(text_chunks) = Cardinality(WindowStarts)

\* The points of the collection the filter of the last search lets through.
Matching ==
    { id \in DOMAIN index :
        /\ index[id].tenant_id = lastOp.tenant_id
        /\ lastOp.op = "search_qdrant"
             => index[id].source_type \in {"document", "website"} }

\* The top_k of the last search: 5 in search_qdrant, 3 in search_knowledge.
TopKOfLastSearch == IF lastOp.op = "search_qdrant" THEN 5 ELSE 3

\* C16 (SeededIndexSpec): a search returns at most top_k entries, by
\* descending score, each the content of a point that passes the filters, and
\* the empty list when the collection is empty or no point passes.
C16_SearchTopK ==
    lastOp.op \in {"search_qdrant", "search_knowledge"} =>
      /\ Len(hits) <= TopKOfLastSearch
      /\ \A i, j \in 1..Len(hits) : i < j => hits[i].score >= hits[j].score
      /\ \A i \in 1..Len(hits) :
            \E id \in Matching :
               /\ index[id].content = hits[i].content
               /\ index[id].source_type = hits[i].source_type
               /\ lastOp.op = "search_qdrant" => hits[i].id = id
      /\ Matching = {} => hits = << >>

\* C16 witness: more points passed the filters than the search was asked
\* for, and the entries returned differ in score.
C16_Witness ==
    /\ lastOp.op = "search_qdrant"
    /\ Cardinality(Matching) > TopKOfLastSearch
    /\ Len(hits) = TopKOfLastSearch
    /\ hits[1].score > hits[Len(hits)].score

\* The retrieval has returned and found nothing.
EmptyRetrieval == Retrieved /\ chunks = << >>

\* C17 (Spec): when the retrieval yields no candidate the flow does not fail
\* before the generation call: reranking and formatting go through, the
\* formatted context is the empty string (from either formatter of the
\* repository), and the only step that can still fail is the generation
\* call itself.
C17_EmptyContextStillGenerates ==
    EmptyRetrieval =>
      /\ pc \in {"Reranking", "Formatting", "Generating", "Delivered", "Failed"}
      /\ pc = "Failed" => error.step = "Generating"
      /\ pc \in {"Generating", "Delivered", "Failed"} =>
            /\ top_chunks = << >>
            /\ Len(context) = 0
            /\ Len(format_rag_context_roadmap(top_chunks)) = 0

\* C17 witness: a tenant without document or website chunks asked, nothing
\* was retrieved, and the answer was generated on an empty context.
C17_Witness ==
    /\ EmptyRetrieval
    /\ pc = "Delivered"
    /\ context = << >>
    /\ reply.kind = "response"

\* The source identifier of a candidate: the url of its page or the filename
\* of its document, as its ingestion stored it.
SourceIdentifier(c) ==
    IF c.metadata.url # None THEN c.metadata.url ELSE c.metadata.filename

\* C18 (Spec): the formatted context has one block per candidate handed to
\* the formatter, in the order given, the i-th labelled Source i and holding
\* the source identifier and the text of the i-th candidate.
C18_OneBlockPerCandidate ==
    pc \in {"Generating", "Delivered"} =>
      /\ Len(context) = Len(top_chunks)
      /\ \A i \in 1..Len(context) :
            /\ context[i].label = i
            /\ context[i].content = top_chunks[i].content
            /\ context[i].source = SourceIdentifier(top_chunks[i])

\* C19 (Spec): when the generation call fails, it was attempted at most 3
\* times; ContentPolicyRejected was not retried; ProviderUnavailable was
\* retried exactly once and answered with the fallback text.
C19_GeneratorRetriesBounded ==
    (pc = "Failed" /\ error.step = "Generating") =>
      /\ error.attempts <= 3
      /\ error.exc = "ContentPolicyRejected" => error.attempts = 1
      /\ error.exc = "ProviderUnavailable" =>
            /\ error.attempts = 2
            /\ reply.kind = "response"
            /\ reply.text = FallbackText

\* C20 (Spec): no step of the handling of a query changes the contents of
\* the collection, whether the query is delivered, fails at some step or
\* stops between two steps.
C20_QueryLeavesIndexUnchanged == [][index' = index]_vars

\* C20 witness: some variants of a query were searched, the search of a
\* later variant failed, and the collection is the seeded one.
C20_Witness ==
    /\ pc = "Failed"
    /\ error.step = "Retrieving"
    /\ Len(per_variant) >= 1
    /\ index = SeedIndex

\* The intent of a message, as the classifier of the agent router names it.
IntentOf(content) ==
    CASE content \in {"Livraison ?", "retourner un colis", "LIVRAISON et retour"}
           -> "faq"
      [] content \in {"remboursement", "garantie"} -> "product_question"
      [] content = "reclamation" -> "complaint"
      [] content = "rendez-vous" -> "booking"
      [] OTHER -> "unknown"

\* The handler of an intent.
HandlerOf(intent) ==
    CASE intent = "faq" -> "handle_faq"
      [] intent = "product_question" -> "rag"
      [] intent = "complaint" -> "escalate"
      [] intent = "booking" -> "schedule"
      [] OTHER -> "fallback"

\* C21 (HandlerSpec): once routed, a message has entered exactly one
\* handler, the one of its intent (FAQ, RAG, escalation, scheduling), no
\* handler is entered later, and a message of unknown intent enters none of
\* them and is answered with the fallback message.
C21_OneHandlerPerIntent ==
    /\ Len(handlers) <= 1
    /\ pc # "Routing" =>
         /\ Len(handlers) = 1
         /\ IntentOf(request.content) # "unknown"
              => handlers[1] = HandlerOf(IntentOf(request.content))
         /\ IntentOf(request.content) = "unknown"
              => /\ handlers[1] = "fallback"
                 /\ pc = "Responded" => reply.text = FallbackText

C23_MaxPagesInRange ==
    \A i \in 1..Len(ingestions) :
        ingestions[i].kind = "website"
            => ingestions[i].body.max_pages \in 1..100


\* C24: after handleClear the first message sent carries no conversation_id
\* and the list holds only messages sent after the clear, also when the
\* response of a request sent before the clear arrives after it.
C24_ClearStartsAfresh ==
    /\ \A i \in 1..Len(messages) : messages[i].clears = clears
    /\ \A i \in 1..Len(sent) :
          (/\ sent[i].clears > 0
           /\ \A j \in 1..(i - 1) : sent[j].clears < sent[i].clears)
              => sent[i].conversation_id = 0


\* C25: whenever no conversation-detail request is in flight, the
\* conversation shown is the conversation selected, for any order of
\* selections and any order in which the detail responses arrive or fail.
C25_ShownIsSelected ==
    detailRequests = << >> => conversationDetail = selectedConversation


\* C26: at most one Playground message request is in flight at any time;
\* handleSend issues no request while isLoading is true or when the input is
\* blank; isLoading is true from the start of a request until it settles
\* and false afterwards, on success and on failure alike.
C26_OneRequestInFlight ==
    /\ [](Len(inflight) <= 1 /\ (isLoading <=> inflight # << >>))
    /\ [][sent' # sent => ~isLoading /\ strip(input) # << >>]_vars

\* a second request in flight after the first has settled, the next message
\* already typed
C26_Witness ==
    /\ Len(sent) = 2
    /\ Len(inflight) = 1
    /\ isLoading
    /\ strip(input) # << >>


\* the bubbles of a role, in the order of the page
BubblesOf(children, role) == SelectSeq(children, LAMBDA b : b.role = role)

\* C27: every widget sendMessage call with a non-blank input appends the
\* user's bubble at once; when its request settles exactly one assistant
\* bubble is appended, the server's response text or a fixed apology, and
\* none is appended otherwise, however many sends overlap; once no request
\* is in flight no typing indicator remains.
C27_OneAnswerPerSend ==
    /\ [](fetches = << >> => BubblesOf(bubbles, "typing") = << >>)
    /\ [](Len(BubblesOf(bubbles, "user"))
            = Len(BubblesOf(bubbles, "assistant")) + Len(fetches))
    /\ [][/\ (Len(fetches') > Len(fetches)) =>
                (BubblesOf(bubbles', "user") = Append(BubblesOf(bubbles, "user"),
                    [role |-> "user", content |-> strip(widgetInput)]))
          /\ (Len(fetches') < Len(fetches)) =>
                (\E content \in {"answer", "pas pu traiter cela",
                                  "problemes de connexion"} :
                    BubblesOf(bubbles', "assistant")
                        = Append(BubblesOf(bubbles, "assistant"),
                                 [role |-> "assistant", content |-> content]))
          /\ (Len(fetches') >= Len(fetches)) =>
                (BubblesOf(bubbles', "assistant")
                    = BubblesOf(bubbles, "assistant"))
          ]_vars

\* three sends have settled, with an answer and an apology; the second was
\* made before the first was answered
C27_Witness ==
    /\ fetches = << >>
    /\ Len(BubblesOf(bubbles, "user")) = 3
    /\ bubbles[1].role = "user" /\ bubbles[2].role = "user"
    /\ \E i, j \in 1..Len(bubbles) :
          /\ bubbles[i] = [role |-> "assistant", content |-> "answer"]
          /\ bubbles[j] = [role |-> "assistant",
                           content |-> "problemes de connexion"]


Final == {"finished", "failed"}

\* C28: while the status of the active job is queued or started (or not yet
\* known) a status request is in flight or the next one is due; once a poll
\* has reported finished or failed no further status request is made for
\* that job and the reset of activeJobId to null is due, and the effect that
\* is due makes it; when an ingestion response arrives activeJobId becomes
\* its job_id or null, and it changes at no other time but to null.
C28_ActiveJobPolled ==
    /\ [](activeJobId # 0 /\ StatusData(activeJobId) \notin Final
            => activeJobId \in polls \/ ENABLED Poll)
    /\ [][\A id \in polls' \ polls : StatusData(id) \notin Final]_vars
    /\ [](activeJobId # 0 /\ StatusData(activeJobId) \in Final
            => effect = activeJobId /\ ENABLED JobStatusEffect)
    /\ [][effect # 0 /\ StatusData(effect) \in Final /\ effect' = 0
            => activeJobId' = 0]_vars
    /\ [][\A i \in 1..Len(ingestions) :
            IF ingestions[i].state # "ok" /\ ingestions'[i].state = "ok"
            THEN activeJobId' \in {ingestions'[i].job_id, 0}
            ELSE TRUE]_vars
    /\ [][(\A i \in 1..Len(ingestions) :
                ingestions'[i].state = "ok" => ingestions[i].state = "ok")
            => activeJobId' \in {activeJobId, 0}]_vars

\* the first job was polled to its end and activeJobId reset; the second job,
\* now active, has been seen started and is being polled again
C28_Witness ==
    /\ activeJobId = 2
    /\ StatusData(1) \in Final
    /\ StatusData(2) = "started"
    /\ 2 \in polls


\* the URL has the parameter, with a value
HasParam(name) == searchParams[name] \notin {"absent", ""}

\* C29: the OAuth callback page leaves status loading once: to error when
\* the URL has an error parameter or lacks code or state (a parameter with an
\* empty value counting as lacking), to success otherwise; afterwards the
\* status does not change while the page is shown, and in both outcomes the
\* page then navigates to /connect.
C29_CallbackSettlesOnce ==
    /\ [][callbackStatus = "loading" /\ callbackStatus' # "loading" =>
            callbackStatus' =
                IF HasParam("error") \/ ~HasParam("code") \/ ~HasParam("state")
                THEN "error" ELSE "success"]_vars
    /\ [][callbackStatus # "loading" /\ visits' = visits =>
            callbackStatus' = callbackStatus]_vars
    /\ [](location = "/callback" /\ callbackStatus # "loading"
            => timers # << >>)
    /\ (location = "/callback") ~> (callbackStatus # "loading")
    /\ (location = "/callback" /\ callbackStatus = "success")
          ~> (location = "/connect")
    /\ (location = "/callback" /\ callbackStatus = "error")
          ~> (location = "/connect")

\* back on /connect after a second callback, refused by the provider although
\* code and state were there
C29_Witness ==
    /\ visits = 2
    /\ location = "/connect"
    /\ callbackStatus = "error"
    /\ HasParam("error") /\ HasParam("code") /\ HasParam("state")


\* C30: once a response has set conversationId, every later request until the
\* next handleClear carries that conversation_id: conversationId changes from
\* a non-null value only to null and only by handleClear, and every request
\* sent while it is non-null carries it.
C30_ConversationKept ==
    /\ [][conversationId # 0 /\ conversationId' # conversationId
            => conversationId' = 0 /\ clears' = clears + 1]_vars
    /\ [][Len(sent') > Len(sent) /\ conversationId # 0
            => sent'[Len(sent')].conversation_id = conversationId]_vars

\* after a clear, the second request opened a conversation and the third was
\* sent in it
C30_Witness ==
    /\ Len(sent) = 3
    /\ clears = 1
    /\ sent[2].clears = 1 /\ sent[2].conversation_id = 0
    /\ sent[3].clears = 1 /\ sent[3].conversation_id = conversationId
    /\ conversationId # 0

====
